---------------------------- MODULE Spec2Model ----------------------------
(***************************************************************************)
(* A model of hdcp-gen-key (src/src/hdcp.cpp, hdcp.h, hdcp-gen-key.cpp):   *)
(* KSV validation and random generation, the derivation of the source and  *)
(* sink device keys from the Master Key Matrix, the conversions between    *)
(* fixed-width bit vectors and hexadecimal strings, the hdcp object with   *)
(* its formatted output, and the option loop of main.                      *)
(*                                                                         *)
(* Representation.  A std::bitset<N> (N <= 64) and a std::uint64_t are     *)
(* both one 64-bit machine word; the word is written here as four 16-bit   *)
(* limbs <<l0, l1, l2, l3>>, least significant first, because the model    *)
(* checker's integers are narrower than 56 bits.  Bit k of a word is bit   *)
(* (k % 16) of limb (k \div 16).  A std::string is a sequence of           *)
(* one-character strings; s[i] of the code is At(s, i).                    *)
(***************************************************************************)
EXTENDS Integers, Sequences, FiniteSets

VARIABLES
    pc,       \* position of the run
    key,      \* the Master Key Matrix handed to the derivation (1600 words)
    h,        \* the hdcp objects: device -> [ksv, source, sink, built]
    ksv,      \* the std::bitset<40> held by the caller (main's ksv)
    valid,    \* what check_ksv returned ("unset" before the call)
    indices,  \* random_ksv: the vector being shuffled
    pos,      \* random_ksv: the shuffle's running position
    swaps,    \* random_ksv: exchanges done so far
    bits,     \* template parameter of the hex conversions
    val,      \* the bit vector given to bitset_to_hex
    text,     \* the string produced by bitset_to_hex / given to the parser
    parsed,   \* what ksv_string_to_bitset returned
    argv,     \* main: the options on the command line, in order
    optind,   \* main: options xgetopt_long has returned so far
    out,      \* main: the output format selected
    status,   \* main: the exit status ("running" until the run ends)
    output,   \* what formatted returned (the values it rendered)
    fn,       \* inner loop: "source" or "sink"
    slot,     \* inner loop: the output slot i being computed
    lz,       \* inner loop: the loop variable z
    ltemp,    \* inner loop: the accumulator temp
    result    \* inner loop: the array being filled

mainVars == <<argv, optind, out, status, output>>
loopVars == <<fn, slot, lz, ltemp, result>>

vars == <<pc, key, h, ksv, valid, indices, pos, swaps, bits, val, text, parsed,
          argv, optind, out, status, output, fn, slot, lz, ltemp, result>>

---------------------------------------------------------------------------
(* Program constants *)

\* std::bitset<40>: the width of a KSV
KsvBits == 40
\* std::bitset<56>: the width of a matrix entry and of a device key entry
KeyBits == 56
\* std::array<std::bitset<56>, 40>: entries of a device key
KeySlots == 40
\* std::array<std::bitset<56>, 1600>: entries of the Master Key Matrix
MatrixSize == 1600
\* check_ksv: the Hamming weight of a correct KSV
KsvWeight == 20

---------------------------------------------------------------------------
(* Machine words *)

LimbBase == 2 ^ 16

Zero64 == <<0, 0, 0, 0>>

Word64 == [1..4 -> 0..(LimbBase - 1)]

\* num[k] of a bitset, bit k of an integer
Bit(w, k) == (w[(k \div 16) + 1] \div (2 ^ (k % 16))) % 2 = 1

RECURSIVE SumSeq(_)
SumSeq(s) == IF s = <<>> THEN 0 ELSE Head(s) + SumSeq(Tail(s))

\* the word whose set bits are the positions in S
FromBits(S) ==
    [j \in 1..4 |->
        SumSeq([k \in 1..16 |->
            IF (16 * (j - 1) + (k - 1)) \in S THEN 2 ^ (k - 1) ELSE 0])]

\* faulty variant: the word kept whole, whatever the width of the bitset
TruncWide(n, w) == w

\* std::bitset<n>(unsigned long long): the low n bits of the word
Trunc(n, w) ==
    [j \in 1..4 |->
        IF 16 * j <= n THEN w[j]
        ELSE IF 16 * (j - 1) >= n THEN 0
        ELSE w[j] % (2 ^ (n - 16 * (j - 1)))]

\* std::bitset<N>::to_ullong: the stored word
to_ullong(b) == b

\* std::bitset<N>::count
count(n, b) == Cardinality({k \in 0..(n - 1) : Bit(b, k)})

\* faulty variant: the accumulator declared std::uint32_t: addition modulo 2^32
Add32(a, b) ==
    LET s0 == a[1] + b[1]
        s1 == a[2] + b[2] + (s0 \div LimbBase)
    IN  <<s0 % LimbBase, s1 % LimbBase, 0, 0>>

\* temp += x on std::uint64_t: addition modulo 2^64
Add64(a, b) ==
    LET s0 == a[1] + b[1]
        s1 == a[2] + b[2] + (s0 \div LimbBase)
        s2 == a[3] + b[3] + (s1 \div LimbBase)
        s3 == a[4] + b[4] + (s2 \div LimbBase)
    IN  <<s0 % LimbBase, s1 % LimbBase, s2 % LimbBase, s3 % LimbBase>>

\* temp & 0xffffffffffffff
Mask56(w) == <<w[1], w[2], w[3], w[4] % 256>>

---------------------------------------------------------------------------
(* Key derivation: generate_source, generate_sink, class hdcp *)

\* faulty variant: generate_source indexing the matrix by row, as generate_sink does
SourceIndexByRow(i, z) == i * 40 + z

\* key[z * 40 + i]: generate_source walks down column i of the matrix
SourceIndex(i, z) == z * 40 + i

\* faulty variant: generate_sink indexing the matrix by column, as generate_source does
SinkIndexByColumn(i, z) == z * 40 + i

\* key[i * 40 + z]: generate_sink walks along row i of the matrix
SinkIndex(i, z) == i * 40 + z

\* the inner loop of generate_source for slot i: loop[z, temp] is the value
\* of temp at the end of the loop when iteration z starts with temp
SourceLoop(k, m, i) ==
    LET loop[z \in 0..KsvBits, temp \in Word64] ==
            IF z >= KsvBits THEN temp
            ELSE loop[z + 1,
                      IF Bit(k, z) THEN Add64(temp, to_ullong(m[SourceIndex(i, z)]))
                      ELSE temp]
    IN  loop[0, Zero64]

\* the inner loop of generate_sink for slot i
SinkLoop(k, m, i) ==
    LET loop[z \in 0..KsvBits, temp \in Word64] ==
            IF z >= KsvBits THEN temp
            ELSE loop[z + 1,
                      IF Bit(k, z) THEN Add64(temp, to_ullong(m[SinkIndex(i, z)]))
                      ELSE temp]
    IN  loop[0, Zero64]

\* temp = temp & 0xffffffffffffff; result[i] = temp;
StoreSlot(temp) == Trunc(KeyBits, Mask56(temp))

\* faulty variant: derivation refusing a KSV whose Hamming weight is not 20
generate_source_valid_only(k, m) ==
    IF count(KsvBits, k) = KsvWeight
    THEN [i \in 0..(KeySlots - 1) |-> StoreSlot(SourceLoop(k, m, i))]
    ELSE <<>>

generate_source(k, m) ==
    [i \in 0..(KeySlots - 1) |-> StoreSlot(SourceLoop(k, m, i))]

generate_sink(k, m) ==
    [i \in 0..(KeySlots - 1) |-> StoreSlot(SinkLoop(k, m, i))]

\* an hdcp object before its constructor has run
NoHdcp == [ksv |-> Zero64, source |-> <<>>, sink |-> <<>>, built |-> FALSE]

\* hdcp::hdcp(key, ksv): stores ksv and derives source and sink
hdcp(m, k) ==
    [ksv |-> k, source |-> generate_source(k, m),
     sink |-> generate_sink(k, m), built |-> TRUE]

---------------------------------------------------------------------------
(* KSV validation and random generation *)

\* bool check_ksv(ksv): return ksv.count() != 20;
check_ksv(k) == count(KsvBits, k) /= KsvWeight

\* std::bitset<40> bs(0x00000fffff)
CanonicalKsv == <<65535, 15, 0, 0>>

\* std::iota(indices.begin(), indices.end(), 0) over bs.size() elements
Iota == [i \in 0..(KsvBits - 1) |-> i]

\* one exchange of std::shuffle: the elements at positions i and j trade places
iter_swap(ix, i, j) == [ix EXCEPT ![i] = ix[j], ![j] = ix[i]]

\* faulty variant: the loop bounded by bs.count() instead of bs.size()
ReadOffToCount(bs, ix) ==
    FromBits({i \in 0..(count(KsvBits, bs) - 1) : Bit(bs, ix[i])})

\* for each i: shuffled_bs[i] = bs[indices[i]]
ReadOff(bs, ix) == FromBits({i \in 0..(KsvBits - 1) : Bit(bs, ix[i])})

---------------------------------------------------------------------------
(* Hexadecimal conversions: bitset_to_hex, ksv_string_to_bitset *)

\* faulty variant: the lookup table written with capital letters
hex_map_upper ==
    <<"0", "1", "2", "3", "4", "5", "6", "7", "8", "9", "A", "B", "C", "D", "E", "F">>

\* static constexpr char hex_map[] = "0123456789abcdef"
hex_map ==
    <<"0", "1", "2", "3", "4", "5", "6", "7", "8", "9", "a", "b", "c", "d", "e", "f">>

\* faulty variant: the nibble assembled with 1 << k instead of 1 << (3 - k)
NibbleReversed(n, num, i) ==
    SumSeq([k \in 1..4 |->
        IF Bit(num, (n - 1) - (i * 4) - (k - 1)) THEN 2 ^ (k - 1) ELSE 0])

\* the inner loop of bitset_to_hex: nibble_value |= (1 << (3 - k)) for each
\* k in 0..3 with num[(bits - 1) - (i * 4) - k] set
Nibble(n, num, i) ==
    SumSeq([k \in 1..4 |->
        IF Bit(num, (n - 1) - (i * 4) - (k - 1)) THEN 2 ^ (3 - (k - 1)) ELSE 0])

\* std::string bitset_to_hex<bits>(num)
bitset_to_hex(n, num) ==
    [i \in 1..(n \div 4) |-> hex_map[Nibble(n, num, i - 1) + 1]]

\* faulty variant: capital hexadecimal digits accepted as well
char_to_uint8_t_anycase(c) ==
    CASE c = "0" -> 0 [] c = "1" -> 1 [] c = "2" -> 2 [] c = "3" -> 3
      [] c = "4" -> 4 [] c = "5" -> 5 [] c = "6" -> 6 [] c = "7" -> 7
      [] c = "8" -> 8 [] c = "9" -> 9
      [] c \in {"a", "A"} -> 10 [] c \in {"b", "B"} -> 11
      [] c \in {"c", "C"} -> 12 [] c \in {"d", "D"} -> 13
      [] c \in {"e", "E"} -> 14 [] c \in {"f", "F"} -> 15
      [] OTHER -> 0

\* std::uint8_t char_to_uint8_t(c): the switch, and return 0b0000 after it
char_to_uint8_t(c) ==
    CASE c = "0" -> 0 [] c = "1" -> 1 [] c = "2" -> 2 [] c = "3" -> 3
      [] c = "4" -> 4 [] c = "5" -> 5 [] c = "6" -> 6 [] c = "7" -> 7
      [] c = "8" -> 8 [] c = "9" -> 9 [] c = "a" -> 10 [] c = "b" -> 11
      [] c = "c" -> 12 [] c = "d" -> 13 [] c = "e" -> 14 [] c = "f" -> 15
      [] OTHER -> 0

\* s.size() < 15: the length below which the input is padded
PadThreshold == 15
\* u0 .. u15: the nibbles of the union's bit-field struct
NibbleCount == 16

\* the character std::string::operator[] yields at index size()
NUL == "\\0"
\* a read past index size(): no character of the string
OutOfRange == "out of range"

\* s[i] on a std::string
At(s, i) ==
    IF i < Len(s) THEN s[i + 1] ELSE IF i = Len(s) THEN NUL ELSE OutOfRange

\* std::reverse(s.begin(), s.end())
Reverse(s) == [i \in 1..Len(s) |-> s[Len(s) + 1 - i]]

\* the loop appending "0" n times to an empty string
Zeros(n) == [i \in 1..n |-> "0"]

\* faulty variant: the working string left in reading order
string_to_convert_unreversed(s) ==
    IF Len(s) < PadThreshold THEN Zeros(PadThreshold - Len(s)) \o s ELSE s

\* faulty variant: the input never padded
string_to_convert_unpadded(s) == Reverse(s)

\* the working string: s padded on the left to 15 characters when shorter,
\* s itself otherwise; reversed in both branches
string_to_convert(s) ==
    IF Len(s) < PadThreshold
    THEN Reverse(Zeros(PadThreshold - Len(s)) \o s)
    ELSE Reverse(s)

\* union ksv_layout: the 4-bit fields u0..u15 overlaid on ksv_number.  Fields
\* are allocated from the low bits of each byte and bytes from the low end of
\* the integer (the layout of the little-endian ABIs the program is built for),
\* so field u_k is bits 4k..4k+3 of ksv_number.
ksv_layout(u) ==
    [j \in 1..4 |->
        (u[4 * (j - 1)] % 16) + 16 * (u[4 * (j - 1) + 1] % 16)
        + 256 * (u[4 * (j - 1) + 2] % 16) + 4096 * (u[4 * (j - 1) + 3] % 16)]

\* std::bitset<bits> ksv_string_to_bitset<bits>(s)
ksv_string_to_bitset(n, s) ==
    LET w == string_to_convert(s)
        u == [k \in 0..(NibbleCount - 1) |-> char_to_uint8_t(At(w, k))]
    IN  Trunc(n, ksv_layout(u))

---------------------------------------------------------------------------
(* Output: hdcp::formatted *)

\* enum formatted_out_type
formatted_out_type ==
    {"TEXT_INFORMATIONAL", "TEXT_SOURCE_ONLY", "TEXT_SINK_ONLY",
     "TEXT_SOURCE_KSV_ONLY", "TEXT_SINK_KSV_ONLY", "TEXT_LINE_SOURCE",
     "TEXT_LINE_SINK", "TEXT_FULL", "JSON", "JSON_FULL", "YAML", "YAML_FULL",
     "XML", "XML_FULL", "TOML", "TOML_FULL", "NOT_FOUND"}

\* the formats whose case renders bitset_to_hex<40>(ksv)
RendersKsv ==
    {"TEXT_INFORMATIONAL", "TEXT_SOURCE_KSV_ONLY", "TEXT_SINK_KSV_ONLY", "TEXT_FULL",
     "JSON", "JSON_FULL", "YAML", "YAML_FULL", "XML", "XML_FULL", "TOML", "TOML_FULL"}

\* the formats whose case renders the entries of source
RendersSource ==
    {"TEXT_INFORMATIONAL", "TEXT_SOURCE_ONLY", "TEXT_SOURCE_KSV_ONLY",
     "TEXT_LINE_SOURCE", "TEXT_FULL",
     "JSON", "JSON_FULL", "YAML", "YAML_FULL", "XML", "XML_FULL", "TOML", "TOML_FULL"}

\* the formats whose case renders the entries of sink
RendersSink ==
    {"TEXT_INFORMATIONAL", "TEXT_SINK_ONLY", "TEXT_SINK_KSV_ONLY",
     "TEXT_LINE_SINK", "TEXT_FULL",
     "JSON", "JSON_FULL", "YAML", "YAML_FULL", "XML", "XML_FULL", "TOML", "TOML_FULL"}

\* the formats whose case renders the entries of hdcp_key
RendersKey == {"TEXT_FULL", "JSON_FULL", "YAML_FULL", "XML_FULL", "TOML_FULL"}

\* get_key_array<n>(arr) and the loops over an array in formatted: the
\* entries 0..n-1 in order, each as bitset_to_hex<56>
get_key_array(n, arr) == [i \in 1..n |-> bitset_to_hex(KeyBits, arr[i - 1])]

\* std::string hdcp::formatted(t) on an object whose hdcp_key refers to m: the
\* format's fixed text (stood for by the name of the format) and the values
\* rendered, in the order ksv, source, sink, hdcp_key that every case follows;
\* the empty string for NOT_FOUND
formatted(obj, m, t) ==
    IF t = "NOT_FOUND" THEN <<>>
    ELSE <<t>>
         \o (IF t \in RendersKsv THEN <<bitset_to_hex(KsvBits, obj.ksv)>> ELSE <<>>)
         \o (IF t \in RendersSource THEN get_key_array(KeySlots, obj.source) ELSE <<>>)
         \o (IF t \in RendersSink THEN get_key_array(KeySlots, obj.sink) ELSE <<>>)
         \o (IF t \in RendersKey THEN get_key_array(MatrixSize, m) ELSE <<>>)

\* faulty variant: formatted moving the source array out of the object
formatted_members_moved(obj, t) == [obj EXCEPT !.source = <<>>]

\* the members ksv, source and sink after formatted(t) has run: no case
\* assigns to a member
formatted_members(obj, t) == obj

---------------------------------------------------------------------------
(* The program: main *)

\* formatted_out_type string_to_fot(s): the sixteen names, NOT_FOUND otherwise
string_to_fot(s) ==
    CASE s = <<"t", "e", "x", "t", "_", "i", "n", "f", "o", "r", "m", "a", "t", "i", "o", "n", "a", "l">>
           -> "TEXT_INFORMATIONAL"
      [] s = <<"t", "e", "x", "t", "_", "s", "o", "u", "r", "c", "e", "_", "o", "n", "l", "y">>
           -> "TEXT_SOURCE_ONLY"
      [] s = <<"t", "e", "x", "t", "_", "s", "i", "n", "k", "_", "o", "n", "l", "y">>
           -> "TEXT_SINK_ONLY"
      [] s = <<"t", "e", "x", "t", "_", "s", "o", "u", "r", "c", "e", "_", "k", "s", "v", "_", "o", "n", "l", "y">>
           -> "TEXT_SOURCE_KSV_ONLY"
      [] s = <<"t", "e", "x", "t", "_", "s", "i", "n", "k", "_", "k", "s", "v", "_", "o", "n", "l", "y">>
           -> "TEXT_SINK_KSV_ONLY"
      [] s = <<"t", "e", "x", "t", "_", "l", "i", "n", "e", "_", "s", "o", "u", "r", "c", "e">>
           -> "TEXT_LINE_SOURCE"
      [] s = <<"t", "e", "x", "t", "_", "l", "i", "n", "e", "_", "s", "i", "n", "k">>
           -> "TEXT_LINE_SINK"
      [] s = <<"t", "e", "x", "t", "_", "f", "u", "l", "l">>
           -> "TEXT_FULL"
      [] s = <<"j", "s", "o", "n">>
           -> "JSON"
      [] s = <<"j", "s", "o", "n", "_", "f", "u", "l", "l">>
           -> "JSON_FULL"
      [] s = <<"y", "a", "m", "l">>
           -> "YAML"
      [] s = <<"y", "a", "m", "l", "_", "f", "u", "l", "l">>
           -> "YAML_FULL"
      [] s = <<"x", "m", "l">>
           -> "XML"
      [] s = <<"x", "m", "l", "_", "f", "u", "l", "l">>
           -> "XML_FULL"
      [] s = <<"t", "o", "m", "l">>
           -> "TOML"
      [] s = <<"t", "o", "m", "l", "_", "f", "u", "l", "l">>
           -> "TOML_FULL"
      [] OTHER -> "NOT_FOUND"

\* what xgetopt_long returns on call number n + 1 over the options av: the next
\* option and its argument, or -1 when the options are exhausted
xgetopt_long(av, n) ==
    IF n < Len(av) THEN av[n + 1] ELSE [opt |-> "-1", arg |-> <<>>]

\* faulty variant: the argument of every option taken for a KSV
OptionKsvAny(cur, o) == ksv_string_to_bitset(KsvBits, o.arg)

\* the variable ksv after the switch has handled option o:
\* case 'k': ksv = ksv_string_to_bitset<40>(xoptarg); no other case assigns it
OptionKsv(cur, o) ==
    IF o.opt = "k" THEN ksv_string_to_bitset(KsvBits, o.arg) ELSE cur

---------------------------------------------------------------------------
(* Inputs *)

\* largest rotation of the KSV patterns drawn as inputs
MaxKsvShift == 1
\* largest seed of the non-uniform matrices drawn as inputs
MaxMatrixSeed == 1
\* exchanges a modelled run of std::shuffle makes at most
MaxSwaps == 2
\* values the shuffle's random draw takes at each position, besides "stay"
ShuffleDraws == 2

\* a 40-bit vector of Hamming weight n: bit k is set iff (k*m + lo) % 40 < n
\* (m is coprime to 40, so k |-> (k*m + lo) % 40 is a bijection)
KsvPattern(m, lo, n) ==
    FromBits({k \in 0..(KsvBits - 1) : ((k * m + lo) % KsvBits) < n})

\* the KSVs a caller may hand over: every weight 0..40, contiguous and scattered
KsvInputs ==
    {KsvPattern(m, lo, n) : m \in {1, 3, 7}, lo \in 0..MaxKsvShift, n \in 0..KsvBits}

\* the KSVs given to the hdcp constructor in the derivation runs
DeriveKsvs ==
    {KsvPattern(m, lo, n) : m \in {1, 3}, lo \in {0, MaxKsvShift},
                            n \in {0, KsvWeight - 1, KsvWeight, KsvBits}}

One64 == <<1, 0, 0, 0>>
\* 0xffffffffffffff
AllOnes56 == <<65535, 65535, 65535, 255>>

\* a matrix whose 1600 entries all equal c
UniformMatrix(c) == [idx \in 0..(MatrixSize - 1) |-> c]

\* a matrix whose entry depends differently on its row and its column, with a
\* high byte large enough for a sum of 20 entries to pass 2^56
AsymMatrix(seed) ==
    [idx \in 0..(MatrixSize - 1) |->
        LET r == idx \div 40
            c == idx % 40
        IN  <<(r * 1601 + c * 7 + seed) % LimbBase,
              (r * 257 + c * c + seed) % LimbBase,
              (c * 4099 + r * 3) % LimbBase,
              (200 + r + 2 * c + seed) % 256>>]

\* the contents intel_hdcp_key may have: opaque 56-bit data
Matrices ==
    {UniformMatrix(c) : c \in {One64, AllOnes56, <<4660, 22136, 39612, 222>>}}
    \cup {AsymMatrix(seed) : seed \in 0..MaxMatrixSeed}

Devices == {"A", "B"}

\* largest seed of the bit vectors given to bitset_to_hex
MaxValSeed == 40
\* longest string given to ksv_string_to_bitset
MaxStrLen == 18
\* largest seed of the strings given to ksv_string_to_bitset
MaxStrSeed == 3

\* the widths bitset_to_hex is instantiated for
HexWidths == {40, 56}
\* the widths ksv_string_to_bitset is instantiated for
ParseWidths == {40, 56, 64}

\* n-bit vectors with varied nibbles, besides all zeros and all ones
ValInputs(n) ==
    {Trunc(n, <<(seed * 4369 + 291) % LimbBase,
                (seed * seed * 257 + 17767) % LimbBase,
                (seed * 40503 + 43981) % LimbBase,
                (seed * 12829 + 65244) % LimbBase>>) : seed \in 0..MaxValSeed}
    \cup {Zero64, Trunc(n, <<65535, 65535, 65535, 65535>>)}

LowerHex ==
    <<"0", "1", "2", "3", "4", "5", "6", "7", "8", "9", "a", "b", "c", "d", "e", "f">>

\* lowercase digits and characters that are no lowercase hexadecimal digit
AnyChar == LowerHex \o <<"A", "F", "G", "g", "x", " ", "-">>

\* the string of length len whose k-th character walks through alphabet from seed
StrPattern(alphabet, len, seed, step) ==
    [k \in 1..len |-> alphabet[((seed + (k - 1) * step) % Len(alphabet)) + 1]]

\* the strings a caller may pass: every length 0..MaxStrLen
StrInputs ==
    {StrPattern(alphabet, len, seed, step) :
        alphabet \in {LowerHex, AnyChar}, len \in 0..MaxStrLen,
        seed \in 0..MaxStrSeed, step \in {1, 3, 7}}

\* no run of main in progress
MainIdle ==
    /\ argv = <<>>
    /\ optind = 0
    /\ out = "TEXT_INFORMATIONAL"
    /\ status = "running"
    /\ output = <<>>

\* no inner loop in progress
LoopIdle ==
    /\ fn = "none"
    /\ slot = 0
    /\ lz = 0
    /\ ltemp = Zero64
    /\ result = <<>>

---------------------------------------------------------------------------
(* Specification SpecKsv: random_ksv and check_ksv *)

InitKsv ==
    /\ MainIdle
    /\ LoopIdle
    /\ pc \in {"shuffle", "supplied"}
    /\ ksv \in (IF pc = "shuffle" THEN {Zero64} ELSE KsvInputs)
    /\ valid = "unset"
    /\ indices = Iota
    /\ pos = 0
    /\ swaps = 0
    /\ key = <<>>
    /\ h = [d \in Devices |-> NoHdcp]
    /\ bits = 0
    /\ val = Zero64
    /\ text = <<>>
    /\ parsed = Zero64

\* std::shuffle reaches position i and its draw j < i exchanges indices[i] and
\* indices[j]; at the positions passed over the draw was the position itself
ShuffleSwap ==
    /\ pc = "shuffle"
    /\ swaps < MaxSwaps
    /\ \E i \in (pos + 1)..(KsvBits - 1) :
        \E q \in 0..(ShuffleDraws - 1) :
            LET j == (i * q) \div ShuffleDraws
            IN  /\ indices' = iter_swap(indices, i, j)
                /\ pos' = i
    /\ swaps' = swaps + 1
    /\ UNCHANGED <<pc, key, h, ksv, valid, bits, val, text, parsed>>
    /\ UNCHANGED <<mainVars, loopVars>>

\* the shuffle ends; random_ksv reads the bits off and returns
RandomKsv ==
    /\ pc = "shuffle"
    /\ ksv' = ReadOff(CanonicalKsv, indices)
    /\ pc' = "generated"
    /\ UNCHANGED <<key, h, valid, indices, pos, swaps, bits, val, text, parsed>>
    /\ UNCHANGED <<mainVars, loopVars>>

\* the caller asks check_ksv about its KSV
CheckKsv ==
    /\ pc \in {"generated", "supplied"}
    /\ valid' = check_ksv(ksv)
    /\ pc' = "checked"
    /\ UNCHANGED <<key, h, ksv, indices, pos, swaps, bits, val, text, parsed>>
    /\ UNCHANGED <<mainVars, loopVars>>

NextKsv == ShuffleSwap \/ RandomKsv \/ CheckKsv

SpecKsv == InitKsv /\ [][NextKsv]_vars

---------------------------------------------------------------------------
(* Specification SpecDerive: two devices built over one matrix *)

InitDerive ==
    /\ MainIdle
    /\ LoopIdle
    /\ pc = "derive"
    /\ key \in Matrices
    /\ h = [d \in Devices |-> NoHdcp]
    /\ ksv = Zero64
    /\ valid = "unset"
    /\ indices = Iota
    /\ pos = 0
    /\ swaps = 0
    /\ bits = 0
    /\ val = Zero64
    /\ text = <<>>
    /\ parsed = Zero64

\* hdcp h(key, k) for device d
Construct(d) ==
    /\ pc = "derive"
    /\ ~h[d].built
    /\ \E k \in DeriveKsvs : h' = [h EXCEPT ![d] = hdcp(key, k)]
    /\ UNCHANGED <<pc, key, ksv, valid, indices, pos, swaps, bits, val, text, parsed>>
    /\ UNCHANGED <<mainVars, loopVars>>

NextDerive == \E d \in Devices : Construct(d)

SpecDerive == InitDerive /\ [][NextDerive]_vars

---------------------------------------------------------------------------
(* Specification SpecLoop: generate_source and generate_sink, one iteration
   of the inner loop at a time *)

\* the KSVs of the stepwise runs: all 40 bits set, 0x00000fffff, a scattered one
LoopKsvs ==
    {KsvPattern(1, 0, KsvBits), CanonicalKsv, KsvPattern(3, MaxKsvShift, KsvWeight - 1)}

\* the matrices of the stepwise runs: every entry 2^56 - 1, and a non-uniform one
LoopMatrices == {UniformMatrix(AllOnes56), AsymMatrix(MaxMatrixSeed)}

\* the matrix entry iteration z of slot i reads, in the function running
LoopIndex(f, i, z) == IF f = "source" THEN SourceIndex(i, z) ELSE SinkIndex(i, z)

\* std::array<std::bitset<56>, 40> result; std::uint64_t temp = 0; i = 0, z = 0
InitLoop ==
    /\ MainIdle
    /\ pc = "loop"
    /\ fn \in {"source", "sink"}
    /\ ksv \in LoopKsvs
    /\ key \in LoopMatrices
    /\ slot = 0
    /\ lz = 0
    /\ ltemp = Zero64
    /\ result = [i \in 0..(KeySlots - 1) |-> Zero64]
    /\ h = [d \in Devices |-> NoHdcp]
    /\ valid = "unset"
    /\ indices = Iota
    /\ pos = 0
    /\ swaps = 0
    /\ bits = 0
    /\ val = Zero64
    /\ text = <<>>
    /\ parsed = Zero64

\* one iteration of the inner loop: if(ksv[z]) temp += key[...].to_ullong(); z++
LoopStep ==
    /\ pc = "loop"
    /\ lz < KsvBits
    /\ ltemp' = (IF Bit(ksv, lz)
                 THEN Add64(ltemp, to_ullong(key[LoopIndex(fn, slot, lz)]))
                 ELSE ltemp)
    /\ lz' = lz + 1
    /\ UNCHANGED <<pc, key, h, ksv, valid, indices, pos, swaps, bits, val, text, parsed>>
    /\ UNCHANGED <<mainVars, fn, slot, result>>

\* the inner loop is over: temp is masked and stored; the outer loop goes to
\* the next slot, which starts with a new temp = 0, or the function returns
LoopStore ==
    /\ pc = "loop"
    /\ lz = KsvBits
    /\ result' = [result EXCEPT ![slot] = StoreSlot(ltemp)]
    /\ ltemp' = Zero64
    /\ IF slot = KeySlots - 1
       THEN pc' = "returned" /\ UNCHANGED <<slot, lz>>
       ELSE pc' = pc /\ slot' = slot + 1 /\ lz' = 0
    /\ UNCHANGED <<key, h, ksv, valid, indices, pos, swaps, bits, val, text, parsed>>
    /\ UNCHANGED <<mainVars, fn>>

NextLoop == LoopStep \/ LoopStore

SpecLoop == InitLoop /\ [][NextLoop]_vars

---------------------------------------------------------------------------
(* Specification SpecObject: an hdcp object and the calls of formatted *)

\* the KSVs the objects are constructed from
ObjectKsvs ==
    {CanonicalKsv, Zero64, KsvPattern(3, MaxKsvShift, KsvWeight - 1)}

\* the matrices the objects refer to
ObjectMatrices == {UniformMatrix(One64), AsymMatrix(MaxMatrixSeed)}

InitObject ==
    /\ MainIdle
    /\ LoopIdle
    /\ pc = "object"
    /\ key \in ObjectMatrices
    /\ ksv \in ObjectKsvs
    /\ h = [d \in Devices |-> NoHdcp]
    /\ valid = "unset"
    /\ indices = Iota
    /\ pos = 0
    /\ swaps = 0
    /\ bits = 0
    /\ val = Zero64
    /\ text = <<>>
    /\ parsed = Zero64

\* hdcp h(key, ksv)
ConstructObject ==
    /\ pc = "object"
    /\ ~h["A"].built
    /\ h' = [h EXCEPT !["A"] = hdcp(key, ksv)]
    /\ UNCHANGED <<pc, key, ksv, valid, indices, pos, swaps, bits, val, text, parsed>>
    /\ UNCHANGED <<mainVars, loopVars>>

\* h.formatted(t), for any t of the enumeration, any number of times
Formatted(t) ==
    /\ pc = "object"
    /\ h["A"].built
    /\ output' = formatted(h["A"], key, t)
    /\ out' = t
    /\ h' = [h EXCEPT !["A"] = formatted_members(h["A"], t)]
    /\ UNCHANGED <<pc, key, ksv, valid, indices, pos, swaps, bits, val, text, parsed>>
    /\ UNCHANGED <<argv, optind, status, loopVars>>

NextObject == ConstructObject \/ \E t \in formatted_out_type : Formatted(t)

SpecObject == InitObject /\ [][NextObject]_vars

---------------------------------------------------------------------------
(* Specification Spec: a run of the program *)

\* most options on a command line
MaxArgs == 2

\* arguments given to -k: the empty string (weight 0) and "ffffffffff"
\* (weight 40)
KsvArgs == {<<>>, [i \in 1..10 |-> "f"]}

\* arguments given to -o: a format name and a string that is no format name
OutArgs == {<<"j", "s", "o", "n">>, <<"J", "S", "O", "N">>}

\* the options xgetopt_long may return: k and o with an argument, h, v, and
\* '?' for an option that is not known or lacks its argument
Options ==
    {[opt |-> "k", arg |-> a] : a \in KsvArgs}
    \cup {[opt |-> "o", arg |-> a] : a \in OutArgs}
    \cup {[opt |-> c, arg |-> <<>>] : c \in {"h", "v", "?"}}

\* the options at which the program ends without reading further
EndsRun(o) ==
    \/ o.opt \in {"h", "v", "?"}
    \/ o.opt = "o" /\ string_to_fot(o.arg) = "NOT_FOUND"

\* the command lines, each up to the last option the program reads
CommandLines ==
    {av \in UNION {[1..n -> Options] : n \in 0..MaxArgs} :
        \A p \in 1..(Len(av) - 1) : ~EndsRun(av[p])}

\* the outcome of std::shuffle over indices in the runs: a rotation of the
\* order taken in steps of 3
Shuffles ==
    {[i \in 0..(KsvBits - 1) |-> (i * 3 + MaxKsvShift) % KsvBits]}

Init ==
    /\ LoopIdle
    /\ pc = "start"
    /\ argv \in CommandLines
    /\ optind = 0
    /\ out = "TEXT_INFORMATIONAL"
    /\ status = "running"
    /\ output = <<>>
    /\ key = AsymMatrix(0)
    /\ h = [d \in Devices |-> NoHdcp]
    /\ ksv = Zero64
    /\ valid = "unset"
    /\ indices \in Shuffles
    /\ pos = 0
    /\ swaps = 0
    /\ bits = 0
    /\ val = Zero64
    /\ text = <<>>
    /\ parsed = Zero64

\* std::bitset<40> ksv = random_ksv(); out = TEXT_INFORMATIONAL
Start ==
    /\ pc = "start"
    /\ ksv' = ReadOff(CanonicalKsv, indices)
    /\ out' = "TEXT_INFORMATIONAL"
    /\ pc' = "options"
    /\ UNCHANGED <<key, h, valid, indices, pos, swaps, bits, val, text, parsed>>
    /\ UNCHANGED <<argv, optind, status, output, loopVars>>

\* case 'k': ksv = ksv_string_to_bitset<40>(xoptarg)
OptKsv ==
    /\ pc = "options"
    /\ xgetopt_long(argv, optind).opt = "k"
    /\ ksv' = OptionKsv(ksv, xgetopt_long(argv, optind))
    /\ optind' = optind + 1
    /\ UNCHANGED <<pc, key, h, valid, indices, pos, swaps, bits, val, text, parsed>>
    /\ UNCHANGED <<argv, out, status, output, loopVars>>

\* case 'o': out = string_to_fot(xoptarg); exit(1) if it is NOT_FOUND
OptOut ==
    /\ pc = "options"
    /\ xgetopt_long(argv, optind).opt = "o"
    /\ out' = string_to_fot(xgetopt_long(argv, optind).arg)
    /\ ksv' = OptionKsv(ksv, xgetopt_long(argv, optind))
    /\ IF out' = "NOT_FOUND"
       THEN pc' = "exited" /\ status' = "1" /\ optind' = optind
       ELSE pc' = pc /\ status' = status /\ optind' = optind + 1
    /\ UNCHANGED <<key, h, valid, indices, pos, swaps, bits, val, text, parsed>>
    /\ UNCHANGED <<argv, output, loopVars>>

\* case 'h': print_help(); exit(0).  case 'v': the version; exit(0)
OptHelpVersion ==
    /\ pc = "options"
    /\ xgetopt_long(argv, optind).opt \in {"h", "v"}
    /\ pc' = "exited"
    /\ status' = "0"
    /\ UNCHANGED <<key, h, ksv, valid, indices, pos, swaps, bits, val, text, parsed>>
    /\ UNCHANGED <<argv, optind, out, output, loopVars>>

\* default: exit(1)
OptDefault ==
    /\ pc = "options"
    /\ xgetopt_long(argv, optind).opt = "?"
    /\ pc' = "exited"
    /\ status' = "1"
    /\ UNCHANGED <<key, h, ksv, valid, indices, pos, swaps, bits, val, text, parsed>>
    /\ UNCHANGED <<argv, optind, out, output, loopVars>>

\* opt == -1: the loop ends; hdcp h(intel_hdcp_key, ksv)
MainConstruct ==
    /\ pc = "options"
    /\ xgetopt_long(argv, optind).opt = "-1"
    /\ h' = [h EXCEPT !["A"] = hdcp(key, ksv)]
    /\ pc' = "constructed"
    /\ UNCHANGED <<key, ksv, valid, indices, pos, swaps, bits, val, text, parsed>>
    /\ UNCHANGED <<mainVars, loopVars>>

\* std::cout << h.formatted(out); return 0
MainPrint ==
    /\ pc = "constructed"
    /\ output' = formatted(h["A"], key, out)
    /\ h' = [h EXCEPT !["A"] = formatted_members(h["A"], out)]
    /\ status' = "0"
    /\ pc' = "printed"
    /\ UNCHANGED <<key, ksv, valid, indices, pos, swaps, bits, val, text, parsed>>
    /\ UNCHANGED <<argv, optind, out, loopVars>>

Next ==
    \/ Start
    \/ OptKsv
    \/ OptOut
    \/ OptHelpVersion
    \/ OptDefault
    \/ MainConstruct
    \/ MainPrint

\* the program is sequential and every step of it terminates, so a run that
\* can take a step takes it
Spec == Init /\ [][Next]_vars /\ WF_vars(Next)

---------------------------------------------------------------------------
(* Specification SpecHex: rendering a bit vector, parsing a string *)

InitHex ==
    /\ MainIdle
    /\ LoopIdle
    /\ pc \in {"render", "parse"}
    /\ bits \in (IF pc = "render" THEN HexWidths ELSE ParseWidths)
    /\ val \in (IF pc = "render" THEN ValInputs(bits) ELSE {Zero64})
    /\ text \in (IF pc = "render" THEN {<<>>} ELSE StrInputs)
    /\ parsed = Zero64
    /\ key = <<>>
    /\ h = [d \in Devices |-> NoHdcp]
    /\ ksv = Zero64
    /\ valid = "unset"
    /\ indices = Iota
    /\ pos = 0
    /\ swaps = 0

\* text = bitset_to_hex<bits>(val)
BitsetToHex ==
    /\ pc = "render"
    /\ text' = bitset_to_hex(bits, val)
    /\ pc' = "rendered"
    /\ UNCHANGED <<key, h, ksv, valid, indices, pos, swaps, bits, val, parsed>>
    /\ UNCHANGED <<mainVars, loopVars>>

\* parsed = ksv_string_to_bitset<bits>(text), text being a caller's string or
\* the string bitset_to_hex produced
StringToBitset ==
    /\ pc \in {"parse", "rendered"}
    /\ parsed' = ksv_string_to_bitset(bits, text)
    /\ pc' = (IF pc = "rendered" THEN "reparsed" ELSE "parsed")
    /\ UNCHANGED <<key, h, ksv, valid, indices, pos, swaps, bits, val, text>>
    /\ UNCHANGED <<mainVars, loopVars>>

NextHex == BitsetToHex \/ StringToBitset

SpecHex == InitHex /\ [][NextHex]_vars

---------------------------------------------------------------------------
(* Arithmetic of the properties: exact sums, reduced once at the end *)

\* the sum of limb j of terms[0], ..., terms[n-1]
RECURSIVE LimbTotal(_, _, _)
LimbTotal(terms, j, n) ==
    IF n = 0 THEN 0 ELSE terms[n - 1][j] + LimbTotal(terms, j, n - 1)

\* the number t[1] + t[2]*2^16 + t[3]*2^32 + t[4]*2^48 modulo 2^56, as a word
Mod56(t) ==
    LET c1 == t[1] \div LimbBase
        c2 == (t[2] + c1) \div LimbBase
        c3 == (t[3] + c2) \div LimbBase
    IN  <<t[1] % LimbBase, (t[2] + c1) % LimbBase,
          (t[3] + c2) % LimbBase, (t[4] + c3) % 256>>

\* the sum modulo 2^56 of the words at(z), over the bit positions z set in k
SelectedSum(k, at) ==
    LET terms == [z \in 0..(KsvBits - 1) |-> IF Bit(k, z) THEN at[z] ELSE Zero64]
    IN  Mod56([j \in 1..4 |-> LimbTotal(terms, j, KsvBits)])

Built == {d \in Devices : h[d].built}

Asymmetric(m) == \E r \in 0..39 : \E c \in 0..39 : m[r * 40 + c] /= m[c * 40 + r]

Uniform(m) == \A idx \in 0..(MatrixSize - 1) : m[idx] = m[0]

IsLowerHex(s) == \A i \in 1..Len(s) : \E j \in 1..16 : LowerHex[j] = s[i]

\* the value of a lowercase hexadecimal digit
DigitValue(c) == (CHOOSE j \in 1..16 : LowerHex[j] = c) - 1

\* the number 16 * w + d modulo 2^64, as a word
Times16Plus(w, d) ==
    LET t0 == w[1] * 16 + d
        t1 == w[2] * 16 + (t0 \div LimbBase)
        t2 == w[3] * 16 + (t1 \div LimbBase)
        t3 == w[4] * 16 + (t2 \div LimbBase)
    IN  <<t0 % LimbBase, t1 % LimbBase, t2 % LimbBase, t3 % LimbBase>>

\* the unsigned integer a string of lowercase hexadecimal digits denotes
RECURSIVE HexValue(_)
HexValue(s) ==
    IF s = <<>> THEN Zero64
    ELSE Times16Plus(HexValue(SubSeq(s, 1, Len(s) - 1)), DigitValue(s[Len(s)]))

\* s with every character outside [0-9a-f] replaced by '0'
Sanitized(s) ==
    [i \in 1..Len(s) |-> IF IsLowerHex(<<s[i]>>) THEN s[i] ELSE "0"]

BitNum(w, k) == IF Bit(w, k) THEN 1 ELSE 0

---------------------------------------------------------------------------
(* Properties *)

\* C1: check_ksv(ksv) returns true if and only if the Hamming weight of ksv
\* is exactly 20.  (The code returns count() != 20: the opposite.)
C1_CheckKsvTrueIffWeight20 ==
    pc = "checked" => ((valid = TRUE) <=> (count(KsvBits, ksv) = 20))

\* C2: whatever exchanges the shuffle made, indices is a bijection on 0..39,
\* output bit i of random_ksv is the canonical pattern's bit at indices[i],
\* and the vector returned has exactly 20 bits set.
C2_RandomKsvWeight20 ==
    pc \in {"shuffle", "generated"} =>
        /\ \A v \in 0..(KsvBits - 1) : \E i \in 0..(KsvBits - 1) : indices[i] = v
        /\ pc = "generated" =>
            /\ \A i \in 0..(KsvBits - 1) : Bit(ksv, i) <=> (indices[i] < 20)
            /\ count(KsvBits, ksv) = 20

C2_Witness ==
    /\ pc = "generated"
    /\ swaps = MaxSwaps
    /\ ksv /= CanonicalKsv
    /\ \E i \in 20..39 : Bit(ksv, i)

\* C3: slot i of generate_source(ksv, key) is the sum of key[z*40 + i] over
\* the z with ksv bit z set, modulo 2^56 (the sum down column i).
C3_SourceIsColumnSum ==
    \A d \in Built : \A i \in 0..39 :
        h[d].source[i] =
            SelectedSum(h[d].ksv, [z \in 0..39 |-> key[z * 40 + i]])

C3_Witness ==
    \E d \in Built :
        /\ Asymmetric(key)
        /\ count(KsvBits, h[d].ksv) = 20
        /\ \E i \in 0..39 : h[d].source[i] /= h[d].sink[i]

\* C4: slot i of generate_sink(ksv, key) is the sum of key[i*40 + z] over
\* the z with ksv bit z set, modulo 2^56 (the sum along row i).
C4_SinkIsRowSum ==
    \A d \in Built : \A i \in 0..39 :
        h[d].sink[i] =
            SelectedSum(h[d].ksv, [z \in 0..39 |-> key[i * 40 + z]])

C4_Witness ==
    \E d \in Built :
        /\ Asymmetric(key)
        /\ count(KsvBits, h[d].ksv) = 19
        /\ \E i \in 0..39 : h[d].sink[i][4] /= h[d].source[i][4]

\* C5: for devices with KSVs a and b over one matrix, the sum modulo 2^56 of
\* source(a)[i] over the bits i set in b equals the sum modulo 2^56 of
\* sink(b)[i] over the bits i set in a.
C5_SharedSecret ==
    \A da \in Built : \A db \in Built :
        SelectedSum(h[db].ksv, h[da].source) = SelectedSum(h[da].ksv, h[db].sink)

C5_Witness ==
    /\ Built = Devices
    /\ Asymmetric(key)
    /\ h["A"].ksv /= h["B"].ksv
    /\ count(KsvBits, h["A"].ksv) = 20
    /\ count(KsvBits, h["B"].ksv) = 20
    /\ SelectedSum(h["B"].ksv, h["A"].source) /= Zero64
    /\ SelectedSum(h["B"].ksv, h["A"].source) /= SelectedSum(h["A"].ksv, h["B"].source)

\* C6: for N in {40, 56} and every N-bit vector v, parsing the string that
\* bitset_to_hex<N>(v) produced with ksv_string_to_bitset<N> gives v back.
C6_RoundTrip ==
    pc = "reparsed" => parsed = val

C6_Witness ==
    /\ pc = "reparsed"
    /\ bits = 56
    /\ val[4] /= 0
    /\ parsed = val
    /\ \E i \in 1..Len(text) : text[i] \in {"a", "b", "c", "d", "e", "f"}

\* C7: bitset_to_hex<N>(v) has exactly N/4 characters, each in [0-9a-f];
\* character i (0 = leftmost) is the digit of the nibble made of bits N-1-4i
\* (most significant) down to N-1-4i-3 of v; the value 0 renders as N/4 '0's.
C7_HexRendering ==
    pc \in {"rendered", "reparsed"} =>
        /\ Len(text) = bits \div 4
        /\ IsLowerHex(text)
        /\ \A i \in 0..((bits \div 4) - 1) :
              text[i + 1] =
                  LowerHex[8 * BitNum(val, bits - 1 - 4 * i)
                           + 4 * BitNum(val, bits - 1 - 4 * i - 1)
                           + 2 * BitNum(val, bits - 1 - 4 * i - 2)
                           + BitNum(val, bits - 1 - 4 * i - 3) + 1]
        /\ val = Zero64 => text = Zeros(bits \div 4)

C7_Witness ==
    /\ pc = "rendered"
    /\ bits = 40
    /\ Len(text) = 10
    /\ text[1] /= text[10]
    /\ \E i \in 1..Len(text) : text[i] \in {"a", "b", "c", "d", "e", "f"}
    /\ \E i \in 1..Len(text) : text[i] \in {"1", "2", "4", "7", "8"}

\* C8: for N in {40, 56, 64} and every string s of lowercase hex digits with
\* at most N/4 characters (the empty string, and 15 and 16 characters for
\* N = 64, included), ksv_string_to_bitset<N>(s) is the unsigned integer that
\* s denotes in base 16.
C8_RightAligned ==
    (pc = "parsed" /\ IsLowerHex(text) /\ Len(text) <= bits \div 4) =>
        parsed = HexValue(text)

C8_Witness ==
    /\ pc = "parsed"
    /\ bits = 64
    /\ Len(text) = 15
    /\ IsLowerHex(text)
    /\ text[1] /= "0"
    /\ parsed = HexValue(text)

\* C9: ksv_string_to_bitset never signals an error: it returns a bit vector
\* for every string, the one it returns for the string with every character
\* outside [0-9a-f] (capital 'A'-'F' included) replaced by '0'.
C9_SilentFallback ==
    pc = "parsed" =>
        /\ parsed \in Word64
        /\ parsed = ksv_string_to_bitset(bits, Sanitized(text))

C9_Witness ==
    /\ pc = "parsed"
    /\ \E i \in 1..Len(text) : text[i] = "A"
    /\ \E i \in 1..Len(text) : text[i] = "g"
    /\ \E i \in 1..Len(text) : text[i] = "f"
    /\ Len(text) >= 16
    /\ parsed /= Zero64

\* C10: over a matrix whose entries all equal c, a KSV of Hamming weight w
\* gives (w * c) mod 2^56 in every slot of source and of sink; KSV 0x00000fffff
\* gives 20 for c = 1 and (20 * 0xffffffffffffff) mod 2^56 for c = 0xffffffffffffff.
C10_UniformMatrix ==
    \A d \in Built :
        Uniform(key) =>
            LET w == count(KsvBits, h[d].ksv)
                expect == Mod56([j \in 1..4 |-> w * key[0][j]])
            IN  /\ \A i \in 0..39 : h[d].source[i] = expect /\ h[d].sink[i] = expect
                /\ (h[d].ksv = CanonicalKsv /\ key[0] = One64) =>
                       h[d].source[0] = <<20, 0, 0, 0>>
                /\ (h[d].ksv = CanonicalKsv /\ key[0] = AllOnes56) =>
                       h[d].sink[39] = <<65516, 65535, 65535, 255>>

C10_Witness ==
    \E d \in Built :
        /\ key = UniformMatrix(AllOnes56)
        /\ h[d].ksv = CanonicalKsv
        /\ h[d].source[0] = <<65516, 65535, 65535, 255>>

\* C13: row and column indexing are distinct operations: there are a KSV and
\* an asymmetric matrix for which generate_source and generate_sink differ in
\* at least one slot.  The pair exhibited is KSV 0x00000fffff and the matrix
\* AsymMatrix(0).
C13_SourceSinkDiffer ==
    \A d \in Built :
        (key = AsymMatrix(0) /\ h[d].ksv = CanonicalKsv) =>
            /\ Asymmetric(key)
            /\ \E i \in 0..(KeySlots - 1) : h[d].source[i] /= h[d].sink[i]
            /\ h[d].source /= h[d].sink

C13_Witness ==
    \E d \in Built :
        /\ key = AsymMatrix(0)
        /\ h[d].ksv = CanonicalKsv
        /\ h[d].source[0] /= h[d].sink[0]
        /\ h[d].source[39] /= h[d].sink[39]

\* the last n characters of s (s itself when it has fewer)
LastChars(s, n) ==
    IF Len(s) <= n THEN s ELSE SubSeq(s, Len(s) - n + 1, Len(s))

\* C15: for N in {40, 56, 64} and every lowercase hex string s longer than N/4
\* characters, ksv_string_to_bitset<N>(s) is the base-16 value of the last
\* min(|s|, 16) characters of s modulo 2^N: bit k of the result is bit k of
\* that value for k < N, and no bit at or above N is set.
C15_OverLongTruncated ==
    (pc = "parsed" /\ IsLowerHex(text) /\ Len(text) > bits \div 4) =>
        LET v == HexValue(LastChars(text, NibbleCount))
        IN  \A k \in 0..63 : Bit(parsed, k) <=> (k < bits /\ Bit(v, k))

C15_Witness ==
    /\ pc = "parsed"
    /\ bits = 40
    /\ IsLowerHex(text)
    /\ Len(text) = 18
    /\ text[1] /= "0"
    /\ text[2] /= "0"
    /\ DigitValue(text[8]) /= 0
    /\ parsed /= HexValue(LastChars(text, NibbleCount))
    /\ parsed /= Zero64

\* C17: for every input string s the working string of ksv_string_to_bitset
\* has at least 15 characters: exactly 15 when |s| < 15 (the only case in
\* which the padding count 15 - |s| is computed, so it is never negative) and
\* |s| otherwise; each read at an index 0..15 is at an index no greater than
\* the working string's length; index 15 of a 15-character working string
\* reads the terminating character, which maps to nibble 0.
C17_BoundedReads ==
    pc \in {"parse", "parsed"} =>
        LET w == string_to_convert(text)
        IN  /\ Len(w) >= PadThreshold
            /\ Len(text) < PadThreshold =>
                   /\ PadThreshold - Len(text) > 0
                   /\ Len(w) = Len(text) + (PadThreshold - Len(text))
            /\ Len(text) >= PadThreshold => Len(w) = Len(text)
            /\ \A k \in 0..(NibbleCount - 1) :
                   /\ k <= Len(w)
                   /\ At(w, k) /= OutOfRange
            /\ Len(w) = PadThreshold =>
                   /\ At(w, NibbleCount - 1) = NUL
                   /\ char_to_uint8_t(At(w, NibbleCount - 1)) = 0

C17_Witness ==
    /\ pc = "parsed"
    /\ Len(text) = 14
    /\ Len(string_to_convert(text)) = 15
    /\ At(string_to_convert(text), 15) = NUL
    /\ parsed /= Zero64

\* the terms the inner loop has added before iteration z of slot i
TermsSoFar(f, i, z) ==
    [y \in 0..(KsvBits - 1) |->
        IF y < z /\ Bit(ksv, y)
        THEN key[IF f = "source" THEN y * 40 + i ELSE i * 40 + y]
        ELSE Zero64]

\* the number t[1] + t[2]*2^16 + t[3]*2^32 + t[4]*2^48 in base 2^16: four
\* limbs and, fifth, what lies at and above 2^64
Exact(t) ==
    LET c1 == t[1] \div LimbBase
        c2 == (t[2] + c1) \div LimbBase
        c3 == (t[3] + c2) \div LimbBase
    IN  <<t[1] % LimbBase, (t[2] + c1) % LimbBase, (t[3] + c2) % LimbBase,
          (t[4] + c3) % LimbBase, (t[4] + c3) \div LimbBase>>

\* C14: at every step of the inner loop of generate_source and generate_sink
\* the accumulator temp holds the exact sum of the terms added so far, which
\* is below 2^64; the value stored in a slot is that sum reduced modulo 2^56
\* once (checked for every slot stored so far each time a slot has been
\* stored), and the array returned is the one the function computes.
C14_NoIntermediateOverflow ==
    pc \in {"loop", "returned"} =>
        /\ pc = "loop" =>
            LET e == Exact([j \in 1..4 |->
                         LimbTotal(TermsSoFar(fn, slot, lz), j, KsvBits)])
            IN  /\ e[5] = 0
                /\ ltemp = <<e[1], e[2], e[3], e[4]>>
        /\ (lz = 0 \/ pc = "returned") =>
              \A i \in 0..(KeySlots - 1) :
                  (i < slot \/ pc = "returned") =>
                      result[i] = Mod56([j \in 1..4 |->
                                      LimbTotal(TermsSoFar(fn, i, KsvBits), j, KsvBits)])
        /\ pc = "returned" =>
              result = (IF fn = "source" THEN generate_source(ksv, key)
                        ELSE generate_sink(ksv, key))

C14_Witness ==
    /\ pc = "loop"
    /\ lz = KsvBits
    /\ count(KsvBits, ksv) = KsvBits
    /\ key = UniformMatrix(AllOnes56)
    /\ ltemp = <<65496, 65535, 65535, 10239>>
    /\ slot > 0
    /\ result[0] = <<65496, 65535, 65535, 255>>

\* C12: once an hdcp object is constructed from (key, ksv), in every state
\* reached by any sequence of formatted(t) calls the stored source is
\* generate_source(ksv, key), the stored sink is generate_sink(ksv, key) and
\* the stored ksv is the constructor's argument; no call of formatted changes
\* the object or the matrix it refers to.
C12_KeySetImmutable ==
    /\ [](h["A"].built =>
            /\ h["A"].ksv = ksv
            /\ h["A"].source = generate_source(ksv, key)
            /\ h["A"].sink = generate_sink(ksv, key))
    /\ [][h["A"].built => (h' = h /\ key' = key /\ ksv' = ksv)]_vars

C12_Witness ==
    /\ h["A"].built
    /\ Asymmetric(key)
    /\ h["A"].ksv = CanonicalKsv
    /\ out = "JSON_FULL"
    /\ Len(output) = 2 + KeySlots + KeySlots + MatrixSize
    /\ output[3] = bitset_to_hex(KeyBits, h["A"].source[0])
    /\ h["A"].source /= h["A"].sink

\* the option the run is looking at
Current == xgetopt_long(argv, optind)

\* no option of the command line ends the run: only -k, and -o with a
\* format name
OnlyKsvAndFormats ==
    \A p \in 1..Len(argv) :
        \/ argv[p].opt = "k"
        \/ argv[p].opt = "o" /\ string_to_fot(argv[p].arg) /= "NOT_FOUND"

\* a 40-entry array of 56-bit values
IsKeyArray(a) ==
    /\ DOMAIN a = 0..(KeySlots - 1)
    /\ \A i \in 0..(KeySlots - 1) : a[i] \in Word64 /\ a[i][4] < 256

\* C11: derivation is total and no KSV is rejected.  In every run, whatever
\* values -k is given (Hamming weight 0 and 40 among them): check_ksv is never
\* evaluated; handling a -k option leaves the run in the option loop; a run
\* ends with status 1 only at an unrecognised -o argument or an unknown
\* option, and with status 0 before key output only at -h or -v; the key set
\* constructed has two 40-entry arrays; and a run in which no option ends the
\* program constructs the key set, prints it and ends with status 0.
C11_NeverRejectsKsv ==
    /\ [](/\ valid = "unset"
          /\ status = "1" =>
                 \/ Current.opt = "?"
                 \/ Current.opt = "o" /\ string_to_fot(Current.arg) = "NOT_FOUND"
          /\ (pc = "exited" /\ status = "0") => Current.opt \in {"h", "v"}
          /\ pc \in {"constructed", "printed"} =>
                 /\ h["A"].built
                 /\ IsKeyArray(h["A"].source)
                 /\ IsKeyArray(h["A"].sink)
          /\ pc = "printed" =>
                 /\ status = "0"
                 /\ output = formatted(h["A"], key, out)
                 /\ output /= <<>>)
    /\ [][(pc = "options" /\ Current.opt = "k") =>
              (pc' = "options" /\ status' = "running" /\ optind' = optind + 1)]_vars
    /\ (OnlyKsvAndFormats ~> (pc = "printed" /\ status = "0"))

C11_Witness ==
    /\ pc = "printed"
    /\ status = "0"
    /\ Len(argv) = 2
    /\ argv[1].opt = "k"
    /\ argv[2].opt = "k"
    /\ argv[1].arg = <<>>
    /\ count(KsvBits, h["A"].ksv) = KsvBits
    /\ IsKeyArray(h["A"].source)
    /\ Len(output) = 2 + KeySlots + KeySlots

\* the positions of the -k options among the first n options
KsvOptions(n) == {p \in 1..n : argv[p].opt = "k"}

\* the 40-bit value a string of lowercase hexadecimal digits denotes
Value40(s) ==
    LET v == HexValue(LastChars(s, NibbleCount))
    IN  FromBits({k \in 0..(KsvBits - 1) : Bit(v, k)})

\* C16: at every point of the option loop the variable ksv is the value parsed
\* from the last -k option handled so far or, when none was handled, the value
\* random_ksv() returned before the loop, which has Hamming weight 20; the
\* hdcp object of a run that reaches key output is constructed from that
\* value after all options were handled; handling a -o option never changes
\* ksv.
C16_KsvSelection ==
    /\ [](pc \in {"options", "constructed", "printed"} =>
            /\ IF KsvOptions(optind) = {}
               THEN /\ \A i \in 0..(KsvBits - 1) : Bit(ksv, i) <=> (indices[i] < KsvWeight)
                    /\ count(KsvBits, ksv) = KsvWeight
               ELSE LET last == CHOOSE p \in KsvOptions(optind) :
                                    \A q \in KsvOptions(optind) : q <= p
                    IN  ksv = Value40(argv[last].arg)
            /\ pc \in {"constructed", "printed"} =>
                   /\ optind = Len(argv)
                   /\ h["A"].ksv = ksv)
    /\ [][(pc = "options" /\ Current.opt = "o") => ksv' = ksv]_vars

C16_Witness ==
    /\ pc = "printed"
    /\ Len(argv) = 2
    /\ argv[1].opt = "k"
    /\ argv[2].opt = "o"
    /\ out = "JSON"
    /\ h["A"].ksv = Value40(argv[1].arg)
    /\ count(KsvBits, h["A"].ksv) = KsvBits
    /\ output[2] = <<"f", "f", "f", "f", "f", "f", "f", "f", "f", "f">>

===========================================================================
